---- MODULE Spec2Model ----
(***************************************************************************)
(* pg_container: one invocation of the tool (main -> processBackup ->      *)
(* runPgDumpToTar -> createDockerImage -> createContainer), modelled as a  *)
(* sequential state machine.  Every call into an external collaborator     *)
(* (file system, dump subprocess, archive/tar writer, engine client) is a  *)
(* step whose outcome is chosen nondeterministically among the outcomes    *)
(* that call can report.                                                   *)
(***************************************************************************)
EXTENDS Integers, Sequences, FiniteSets, TLC

VARIABLES
    pc,                  \* position of the invocation in main.go
    connectionURL,       \* cmd.Args().Get(0), a sequence of characters
    createContainerFlag, \* cmd.Bool("container")
    pgDumpFile,          \* the file at filepath.Join(os.TempDir(), "pg_dump")
    tmpFile,             \* the handle returned by os.Create
    databaseName,        \* result of extractDatabaseName
    cmd,                 \* the dump subprocess
    dumpBuffer,          \* captured standard output of the subprocess
    tw,                  \* the tar.Writer
    tarBuffer,           \* the bytes.Buffer under the tar.Writer
    apiClient,           \* the engine client
    buildResponse,       \* the ImageBuildResponse (its Body stream)
    engineCalls,         \* calls received by the remote engine, in order
    fullImageName,       \* the image reference computed in createDockerImage
    imageName,           \* value returned by createDockerImage
    output,              \* lines printed to the operator, in order
    diag,                \* the panic value / fatal message of a failed run
    now,                 \* the wall clock, in seconds
    host                 \* the host the invocation runs on: what happened to
                         \* the temp file and other invocations of the tool

vars == <<pc, connectionURL, createContainerFlag, pgDumpFile, tmpFile,
          databaseName, cmd, dumpBuffer, tw, tarBuffer, apiClient,
          buildResponse, engineCalls, fullImageName, imageName, output,
          diag, now, host>>

----------------------------------------------------------------------------
(* Bounds of the model *)

\* longest dump payload the subprocess writes
MaxDump == 2
\* number of chunks of the longest build response stream
MaxStream == 2
\* last instant the clock reaches
MaxNow == 60
\* archive block size (512 in archive/tar), scaled down
BlockSize == 3
\* invocations of the tool run one after the other on a host
MaxRuns == 2
SecondsPerMinute == 60
SecondsPerHour == 3600

\* instants an invocation starts at
StartTimes == {59, 60}

\* the embedded build recipe (//go:embed Dockerfile), scaled down
dockerfile == <<70, 82>>

\* the embedded dump tool (//go:embed pg_dump), scaled down
pgDump == <<127, 69>>

Bytes == {0, 1}

RECURSIVE SeqsUpTo(_, _)
SeqsUpTo(S, n) ==
    IF n = 0 THEN {<<>>}
    ELSE LET shorter == SeqsUpTo(S, n - 1)
         IN  shorter \cup {Append(s, b) : s \in {t \in shorter : Len(t) = n - 1}, b \in S}

\* what the dump subprocess may write to standard output
Payloads == SeqsUpTo(Bytes, MaxDump)

None == "none"

----------------------------------------------------------------------------
(* Connection strings and net/url parsing *)

\* p://u:w@h/db
UrlFull == <<"p", ":", "/", "/", "u", ":", "w", "@", "h", "/", "d", "b">>
\* p://u@h
UrlUserOnly == <<"p", ":", "/", "/", "u", "@", "h">>
\* p://h
UrlHostOnly == <<"p", ":", "/", "/", "h">>
\* p://@h/
UrlEmptyUser == <<"p", ":", "/", "/", "@", "h", "/">>
\* db
UrlBare == <<"d", "b">>
\* p://^h  ("^" stands for a control character)
UrlControl == <<"p", ":", "/", "/", "^", "h">>

\* p://u@h/
UrlUserSlash == <<"p", ":", "/", "/", "u", "@", "h", "/">>

ConnectionStrings ==
    {<<>>, UrlFull, UrlUserOnly, UrlHostOnly, UrlEmptyUser, UrlBare, UrlControl,
     UrlUserSlash}

\* index of the first occurrence of c in s at or after position i, 0 if none
RECURSIVE IndexFrom(_, _, _)
IndexFrom(s, c, i) ==
    IF i > Len(s) THEN 0
    ELSE IF s[i] = c THEN i
    ELSE IndexFrom(s, c, i + 1)

\* index of the last occurrence of c in s, 0 if none
RECURSIVE LastIndex(_, _, _)
LastIndex(s, c, i) ==
    IF i = 0 THEN 0
    ELSE IF s[i] = c THEN i
    ELSE LastIndex(s, c, i - 1)

Slice(s, from, to) == IF from > to THEN <<>> ELSE SubSeq(s, from, to)

\* url.Parse: [err, path, hasUser, username]
ParseURL(s) ==
    LET colon    == IndexFrom(s, ":", 1)
        hasAuth  == /\ colon > 1
                    /\ Len(s) >= colon + 2
                    /\ s[colon + 1] = "/"
                    /\ s[colon + 2] = "/"
        rest     == IF hasAuth THEN Slice(s, colon + 3, Len(s)) ELSE s
        slash    == IndexFrom(rest, "/", 1)
        auth     == IF ~hasAuth THEN <<>>
                    ELSE IF slash = 0 THEN rest
                    ELSE Slice(rest, 1, slash - 1)
        path     == IF ~hasAuth THEN rest
                    ELSE IF slash = 0 THEN <<>>
                    ELSE Slice(rest, slash, Len(rest))
        at       == LastIndex(auth, "@", Len(auth))
        userinfo == Slice(auth, 1, at - 1)
        pwColon  == IndexFrom(userinfo, ":", 1)
        username == IF pwColon = 0 THEN userinfo
                    ELSE Slice(userinfo, 1, pwColon - 1)
    IN  IF IndexFrom(s, "^", 1) > 0
        THEN [err |-> TRUE, path |-> <<>>, hasUser |-> FALSE, username |-> <<>>]
        ELSE [err |-> FALSE, path |-> path, hasUser |-> at > 0,
              username |-> IF at > 0 THEN username ELSE <<>>]

\* TrimPrefix with the prefix left in place
TrimPrefixKept(s) == s

\* strings.TrimPrefix(s, "/")
TrimPrefix(s) == IF Len(s) > 0 /\ s[1] = "/" THEN Tail(s) ELSE s

\* extractDatabaseName: [err, name]
extractDatabaseName(url) ==
    LET u       == ParseURL(url)
        dbName  == TrimPrefix(u.path)
        dbName2 == IF dbName = <<>> /\ u.hasUser THEN u.username ELSE dbName
    IN  IF u.err THEN [err |-> "Invalid Postgres connection URL", name |-> <<>>]
        ELSE IF dbName2 = <<>>
        THEN [err |-> "No database name or username found in the connection URL",
              name |-> <<>>]
        ELSE [err |-> None, name |-> dbName2]

\* extractDatabaseName on each connection string the tool can be started with
databaseNames == [url \in ConnectionStrings |-> extractDatabaseName(url)]

----------------------------------------------------------------------------
(* archive/tar Writer over a bytes.Buffer.  The buffer is a sequence of    *)
(* cells: a header block is one cell, content and padding are byte cells.  *)

HeaderCell(name, size, mode) ==
    [kind |-> "hdr", name |-> name, size |-> size, mode |-> mode]

ByteCell(b) == [kind |-> "byte", v |-> b]

Zeros(n) == [i \in 1..n |-> ByteCell(0)]

ByteCells(bs) == [i \in 1..Len(bs) |-> ByteCell(bs[i])]

\* bytes needed to pad n content bytes to a whole number of blocks
BlockPadding(n) == (BlockSize - (n % BlockSize)) % BlockSize

Min(a, b) == IF a < b THEN a ELSE b

NewWriter == [err |-> None, rem |-> 0, pad |-> 0, closes |-> 0]

\* no writer constructed yet
NoWriter == [err |-> "nil writer", rem |-> 0, pad |-> 0, closes |-> 0]

\* tar.Writer.WriteHeader; io says whether the underlying write fails
twWriteHeader(w, buf, name, size, mode, io) ==
    IF w.err # None THEN [tw |-> w, buf |-> buf, err |-> w.err]
    ELSE IF w.rem > 0 THEN [tw |-> w, buf |-> buf, err |-> "missed writing"]
    ELSE IF io THEN [tw |-> [w EXCEPT !.err = "io"], buf |-> buf, err |-> "io"]
    ELSE [tw  |-> [w EXCEPT !.rem = size, !.pad = BlockPadding(size)],
          buf |-> buf \o Zeros(w.pad) \o <<HeaderCell(name, size, mode)>>,
          err |-> None]

\* tar.Writer.Write
twWrite(w, buf, b, io) ==
    IF w.err # None THEN [tw |-> w, buf |-> buf, err |-> w.err]
    ELSE IF io THEN [tw |-> [w EXCEPT !.err = "io"], buf |-> buf, err |-> "io"]
    ELSE LET n == Min(Len(b), w.rem)
         IN  [tw  |-> [w EXCEPT !.rem = w.rem - n],
              buf |-> buf \o ByteCells(SubSeq(b, 1, n)),
              err |-> IF Len(b) > w.rem THEN "write too long" ELSE None]

\* twClose with the call left out: the writer stays open, nothing is flushed
twCloseLeftOut(w, buf, io) == [tw |-> w, buf |-> buf, err |-> None]

\* tar.Writer.Close
twClose(w, buf, io) ==
    IF w.err = "closed" THEN [tw |-> w, buf |-> buf, err |-> None]
    ELSE IF w.err # None THEN [tw |-> w, buf |-> buf, err |-> w.err]
    ELSE IF w.rem > 0
    THEN [tw  |-> [w EXCEPT !.err = "closed", !.closes = w.closes + 1],
          buf |-> buf, err |-> "missed writing"]
    ELSE IF io
    THEN [tw  |-> [w EXCEPT !.err = "closed", !.closes = w.closes + 1],
          buf |-> buf, err |-> "io"]
    ELSE [tw  |-> [w EXCEPT !.err = "closed", !.pad = 0, !.closes = w.closes + 1],
          buf |-> buf \o Zeros(w.pad) \o Zeros(2 * BlockSize),
          err |-> None]

\* tar.Reader: the entries an archive reader extracts from the buffer
RECURSIVE ReadArchive(_, _)
ReadArchive(buf, i) ==
    IF i > Len(buf) \/ buf[i].kind # "hdr" THEN <<>>
    ELSE LET h    == buf[i]
             last == Min(i + h.size, Len(buf))
             body == [k \in 1..(last - i) |-> buf[i + k].v]
         IN  <<[name |-> h.name, size |-> h.size, mode |-> h.mode, content |-> body]>>
             \o ReadArchive(buf, i + 1 + h.size + BlockPadding(h.size))

Entries(buf) == ReadArchive(buf, 1)

\* position of the cell that follows the last entry and its padding
RECURSIVE EndOfEntries(_, _)
EndOfEntries(buf, i) ==
    IF i > Len(buf) \/ buf[i].kind # "hdr" THEN i
    ELSE EndOfEntries(buf, i + 1 + buf[i].size + BlockPadding(buf[i].size))

\* the buffer ends with the end-of-archive trailer right after its entries
Terminated(buf) ==
    LET e == EndOfEntries(buf, 1)
    IN  /\ Len(buf) = e - 1 + 2 * BlockSize
        /\ \A k \in e..Len(buf) : buf[k] = ByteCell(0)

----------------------------------------------------------------------------
(* State after the command line has been parsed *)

\* states the host's temporary-file area can be in when the tool starts:
\* no file, the file a completed earlier run left, the file a run that
\* failed between os.Create and Chmod left
NoFile == [exists |-> FALSE, content |-> <<>>, mode |-> None]
CompleteFile == [exists |-> TRUE, content |-> pgDump, mode |-> "0755"]
StaleFile == [exists |-> TRUE, content |-> <<>>, mode |-> "0666"]

\* the subprocess before exec.Command
NoCmd == [state |-> None, status |-> 0]

\* no image reference / no container name
NoRef == [db |-> <<>>, stamp |-> 0, tag |-> ""]
NoName == [prefix |-> "", db |-> <<>>, unix |-> 0]

\* buildResponse, err before ImageBuild has returned; the Body stream is
\* None (not handed back), "nil", "open" or "closed", with the number of its
\* chunks, the chunks read, whether a Read failed, whether Read reached the
\* end of the stream, and the number of Close calls on it
NoResponse == [err |-> FALSE, body |-> None, len |-> 0, pos |-> 0,
               failed |-> FALSE, eof |-> FALSE, closes |-> 0]

\* a second invocation of the tool on the same host, not started
NoOther == [pc |-> "idle", tmpFile |-> None, sawFile |-> FALSE]

\* the host when the invocation starts: runs counts the invocations started
\* one after the other, missed the os.Stat calls on pgDumpPath that found no
\* file, writes the Write calls on the file
FreshHost == [runs |-> 1, missed |-> 0, writes |-> 0, other |-> NoOther,
              zone |-> "UTC"]

\* the local time zone of the host: one with a fixed offset, and one whose
\* wall clock is set back by an hour at the instant ClockSetBack
Zones == {"UTC", "DST"}

Init ==
    /\ pc = "main"
    /\ connectionURL \in ConnectionStrings
    /\ createContainerFlag \in BOOLEAN
    /\ pgDumpFile \in {NoFile, CompleteFile, StaleFile}
    /\ tmpFile = None
    /\ databaseName = <<>>
    /\ cmd = NoCmd
    /\ dumpBuffer = <<>>
    /\ tw = NoWriter
    /\ tarBuffer = <<>>
    /\ apiClient = None
    /\ buildResponse = NoResponse
    /\ engineCalls = <<>>
    /\ imageName = NoRef
    /\ fullImageName = NoRef
    /\ output = <<>>
    /\ diag = None
    /\ now \in StartTimes
    /\ host \in {[FreshHost EXCEPT !.zone = z] : z \in Zones}

Line(msg, ref) == [msg |-> msg, ref |-> ref]

\* deferred calls of processBackup: tmpFile.Close (line 78), apiClient.Close (line 110)
RunDeferred ==
    /\ tmpFile' = IF tmpFile = "open" THEN "closed" ELSE tmpFile
    /\ apiClient' = IF apiClient = "open" THEN "closed" ELSE apiClient

\* panic(v): the deferred calls run, the process ends with a non-zero status
Panic(v) ==
    /\ pc' = "failed"
    /\ diag' = v
    /\ RunDeferred

\* log.Fatalf: os.Exit(1), deferred calls do not run
Fatalf(v) ==
    /\ pc' = "failed"
    /\ diag' = v
    /\ UNCHANGED <<host, tmpFile, apiClient>>

\* hasArgument with the test left out
hasArgumentAlways(url) == TRUE

\* len(connectionURL) > 0 (line 50)
hasArgument(url) == Len(url) > 0

\* the Action of the cli.Command (main.go 47-59) and the first line of processBackup
Main ==
    /\ pc = "main"
    /\ IF hasArgument(connectionURL)
       THEN /\ pc' = "stat"
            /\ output' = Append(output, Line("Step 1: Processing dump", NoRef))
       ELSE /\ pc' = "done"
            /\ output' = Append(output, Line("help", NoRef))
    /\ UNCHANGED <<host, connectionURL, createContainerFlag, pgDumpFile, tmpFile,
                   databaseName, cmd, dumpBuffer, tw, tarBuffer, apiClient,
                   buildResponse, engineCalls, fullImageName, imageName, diag, now>>

\* fileMissing with the existence check left out: the file is always rewritten
fileMissingAlways(f) == TRUE

\* os.IsNotExist(err) of os.Stat(pgDumpPath) (line 73)
fileMissing(f) == ~f.exists

\* os.Stat(pgDumpPath) and the branch on os.IsNotExist
StatPgDump ==
    /\ pc = "stat"
    /\ \E statErr \in BOOLEAN :
         IF fileMissing(pgDumpFile)
         THEN /\ pc' = "create"
              /\ UNCHANGED <<diag, tmpFile, apiClient>>
         ELSE IF statErr
         THEN Panic("stat")
         ELSE /\ pc' = "extract"
              /\ UNCHANGED <<diag, tmpFile, apiClient>>
    /\ host' = [host EXCEPT !.missed = IF fileMissing(pgDumpFile) THEN @ + 1 ELSE @]
    /\ UNCHANGED <<connectionURL, createContainerFlag, pgDumpFile,
                   databaseName, cmd, dumpBuffer, tw, tarBuffer,
                   buildResponse, engineCalls, fullImageName, imageName, output, now>>

\* the file after os.Create: a new empty file, or the existing file truncated
\* with its permissions kept
created(f) ==
    [exists |-> TRUE, content |-> <<>>, mode |-> IF f.exists THEN f.mode ELSE "0666"]

\* os.Create(pgDumpPath); defer tmpFile.Close()
CreatePgDump ==
    /\ pc = "create"
    /\ \E ok \in BOOLEAN :
         IF ok
         THEN /\ pgDumpFile' = created(pgDumpFile)
              /\ tmpFile' = "open"
              /\ pc' = "write"
              /\ UNCHANGED <<diag, apiClient>>
         ELSE /\ Panic("create")
              /\ UNCHANGED pgDumpFile
    /\ UNCHANGED <<host, connectionURL, createContainerFlag, databaseName, cmd,
                   dumpBuffer, tw, tarBuffer, buildResponse, engineCalls,
                   fullImageName, imageName, output, now>>

\* written with the file removed again when the Write falls short
writtenOrRemoved(f, n) ==
    IF n < Len(pgDump) THEN [exists |-> FALSE, content |-> <<>>, mode |-> None]
    ELSE [f EXCEPT !.content = pgDump]

\* the file after a Write at offset 0 that stored the first n bytes of pgDump
written(f, n) ==
    [f EXCEPT !.content = SubSeq(pgDump, 1, n) \o Slice(f.content, n + 1, Len(f.content))]

\* tmpFile.Write(pgDump)
WritePgDump ==
    /\ pc = "write"
    /\ \E n \in 0..Len(pgDump) :
         /\ pgDumpFile' = written(pgDumpFile, n)
         /\ IF n = Len(pgDump)
            THEN /\ pc' = "chmod"
                 /\ UNCHANGED <<diag, tmpFile, apiClient>>
            ELSE Panic("write")
    /\ host' = [host EXCEPT !.writes = @ + 1]
    /\ UNCHANGED <<connectionURL, createContainerFlag, databaseName, cmd,
                   dumpBuffer, tw, tarBuffer, buildResponse, engineCalls,
                   fullImageName, imageName, output, now>>

\* tmpFile.Chmod(0755)
ChmodPgDump ==
    /\ pc = "chmod"
    /\ \E ok \in BOOLEAN :
         IF ok
         THEN /\ pgDumpFile' = [pgDumpFile EXCEPT !.mode = "0755"]
              /\ pc' = "extract"
              /\ UNCHANGED <<diag, tmpFile, apiClient>>
         ELSE /\ Panic("chmod")
              /\ UNCHANGED pgDumpFile
    /\ UNCHANGED <<host, connectionURL, createContainerFlag, databaseName, cmd,
                   dumpBuffer, tw, tarBuffer, buildResponse, engineCalls,
                   fullImageName, imageName, output, now>>

\* databaseName, err := extractDatabaseName(connectionURL); tar.NewWriter(tarBuffer)
ExtractDatabaseName ==
    /\ pc = "extract"
    /\ LET r == databaseNames[connectionURL]
       IN  IF r.err # None
           THEN /\ Panic(r.err)
                /\ UNCHANGED <<databaseName, tw, tarBuffer>>
           ELSE /\ databaseName' = r.name
                /\ tw' = NewWriter
                /\ tarBuffer' = <<>>
                /\ pc' = "start"
                /\ UNCHANGED <<diag, tmpFile, apiClient>>
    /\ UNCHANGED <<host, connectionURL, createContainerFlag, pgDumpFile, cmd,
                   dumpBuffer, buildResponse, engineCalls, fullImageName, imageName, output, now>>

----------------------------------------------------------------------------
(* runPgDumpToTar *)

\* whether the file at pgDumpPath can be executed as the dump tool
Executable(f) == f.exists /\ f.mode = "0755" /\ f.content = pgDump

\* exec.Command(pgDumpPath, connectionURL); cmd.Start()
CmdStart ==
    /\ pc = "start"
    /\ \E ok \in BOOLEAN :
         IF ok /\ Executable(pgDumpFile)
         THEN /\ cmd' = [state |-> "running", status |-> 0]
              /\ pc' = "wait"
              /\ UNCHANGED <<diag, tmpFile, apiClient>>
         ELSE /\ Panic("dump tool did not start")
              /\ UNCHANGED cmd
    /\ UNCHANGED <<host, connectionURL, createContainerFlag, pgDumpFile, databaseName,
                   dumpBuffer, tw, tarBuffer, buildResponse, engineCalls,
                   fullImageName, imageName, output, now>>

\* waitFailed with the exit status ignored
waitNeverFailed(status) == FALSE

\* err != nil of cmd.Wait() (line 243)
waitFailed(status) == status # 0

\* cmd.Wait(): the subprocess has written p to standard output and exits
CmdWait ==
    /\ pc = "wait"
    /\ \E p \in Payloads, status \in {0, 1} :
         /\ dumpBuffer' = p
         /\ cmd' = [state |-> "exited", status |-> status]
         /\ IF ~waitFailed(status)
            THEN /\ pc' = "dumpHeader"
                 /\ UNCHANGED <<diag, tmpFile, apiClient, output>>
            ELSE /\ output' = Append(output, Line("stderr of the dump tool", NoRef))
                 /\ Panic("dump tool exit status")
    /\ UNCHANGED <<host, connectionURL, createContainerFlag, pgDumpFile, databaseName,
                   tw, tarBuffer, buildResponse, engineCalls, fullImageName,
                   imageName, now>>

\* dumpEntryName taking the recipe's name
dumpEntryNameOfRecipe == "Dockerfile"

\* Name: "dump.sql" (line 251)
dumpEntryName == "dump.sql"

\* dumpSize := int64(dumpBuffer.Len())
dumpSize(buf) == Len(buf)

\* tw.WriteHeader(tarHeader) for dump.sql
WriteDumpHeader ==
    /\ pc = "dumpHeader"
    /\ \E io \in BOOLEAN :
         LET r == twWriteHeader(tw, tarBuffer, dumpEntryName, dumpSize(dumpBuffer), "0777", io)
         IN  /\ tw' = r.tw
             /\ tarBuffer' = r.buf
             /\ IF r.err # None
                THEN Panic("tar header of dump.sql")
                ELSE /\ pc' = "dumpWrite"
                     /\ UNCHANGED <<diag, tmpFile, apiClient>>
    /\ UNCHANGED <<host, connectionURL, createContainerFlag, pgDumpFile, databaseName,
                   cmd, dumpBuffer, buildResponse, engineCalls, fullImageName,
                   imageName, output, now>>

\* tw.Write(dumpBuffer.Bytes()); return nil
WriteDumpContent ==
    /\ pc = "dumpWrite"
    /\ \E io \in BOOLEAN :
         LET r == twWrite(tw, tarBuffer, dumpBuffer, io)
         IN  /\ tw' = r.tw
             /\ tarBuffer' = r.buf
             /\ IF r.err # None
                THEN Panic("tar content of dump.sql")
                ELSE /\ pc' = "newClient"
                     /\ UNCHANGED <<diag, tmpFile, apiClient>>
    /\ UNCHANGED <<host, connectionURL, createContainerFlag, pgDumpFile, databaseName,
                   cmd, dumpBuffer, buildResponse, engineCalls, fullImageName,
                   imageName, output, now>>

----------------------------------------------------------------------------
(* processBackup, after the dump *)

\* client.NewClientWithOpts(client.FromEnv); defer apiClient.Close()
NewClient ==
    /\ pc = "newClient"
    /\ \E ok \in BOOLEAN :
         IF ok
         THEN /\ apiClient' = "open"
              /\ pc' = "recipeHeader"
              /\ UNCHANGED <<diag, tmpFile>>
         ELSE Panic("engine client")
    /\ UNCHANGED <<host, connectionURL, createContainerFlag, pgDumpFile, databaseName,
                   cmd, dumpBuffer, tw, tarBuffer, buildResponse, engineCalls,
                   fullImageName, imageName, output, now>>

----------------------------------------------------------------------------
(* createDockerImage *)

\* recipeSize declaring one byte more than the recipe holds
recipeSizeOffByOne == Len(dockerfile) + 1

\* Size: int64(len(dockerfile))
recipeSize == Len(dockerfile)

\* tw.WriteHeader for the Dockerfile entry; log.Fatalf on error
WriteRecipeHeader ==
    /\ pc = "recipeHeader"
    /\ \E io \in BOOLEAN :
         LET r == twWriteHeader(tw, tarBuffer, "Dockerfile", recipeSize, "0600", io)
         IN  /\ tw' = r.tw
             /\ tarBuffer' = r.buf
             /\ IF r.err # None
                THEN Fatalf("Failed to write tar header")
                ELSE /\ pc' = "recipeWrite"
                     /\ UNCHANGED <<diag, tmpFile, apiClient>>
    /\ output' = Append(output, Line("Step 2: Creating Docker image", NoRef))
    /\ UNCHANGED <<host, connectionURL, createContainerFlag, pgDumpFile, databaseName,
                   cmd, dumpBuffer, buildResponse, engineCalls, fullImageName,
                   imageName, now>>

\* the err returned by tw.Write(dockerfile) that aborts the run
recipeWriteFatal(err) == err # None

\* tw.Write(dockerfile); log.Fatalf on error
WriteRecipe ==
    /\ pc = "recipeWrite"
    /\ \E io \in BOOLEAN :
         LET r == twWrite(tw, tarBuffer, dockerfile, io)
         IN  /\ tw' = r.tw
             /\ tarBuffer' = r.buf
             /\ IF recipeWriteFatal(r.err)
                THEN Fatalf("Failed to write Dockerfile to tar")
                ELSE /\ pc' = "close"
                     /\ UNCHANGED <<diag, tmpFile, apiClient>>
    /\ UNCHANGED <<host, connectionURL, createContainerFlag, pgDumpFile, databaseName,
                   cmd, dumpBuffer, buildResponse, engineCalls, fullImageName,
                   imageName, output, now>>

\* tw.Close(): the returned error is discarded
CloseTar ==
    /\ pc = "close"
    /\ \E io \in BOOLEAN :
         LET r == twClose(tw, tarBuffer, io)
         IN  /\ tw' = r.tw
             /\ tarBuffer' = r.buf
    /\ pc' = "build"
    /\ UNCHANGED <<host, connectionURL, createContainerFlag, pgDumpFile, tmpFile,
                   databaseName, cmd, dumpBuffer, apiClient, buildResponse,
                   engineCalls, fullImageName, imageName, output, diag, now>>

\* the instant at which the wall clock of zone "DST" goes back an hour
ClockSetBack == SecondsPerHour

\* time.Now() carries the local location: the offset of the wall clock of
\* the zone from the instant t
UTCOffset(zone, t) ==
    IF zone = "DST" /\ t < ClockSetBack THEN SecondsPerHour ELSE 0

\* currentTime.Format("2006-01-02-1504"): the fields of the local wall clock
\* down to the minute; the layout has no zone
FormatTime(t) == (t + UTCOffset(host.zone, t)) \div SecondsPerMinute

\* fullImageName := imageName + "-" + formattedTime + ":latest"
ImageRef(name, t) == [db |-> name, stamp |-> FormatTime(t), tag |-> "latest"]

Call(op, image, context, name, buildArg) ==
    [op |-> op, image |-> image, context |-> context, name |-> name,
     buildArg |-> buildArg]

\* what the engine client's ImageBuild can hand back
BuildOutcomes ==
    {[err |-> TRUE, body |-> None, len |-> 0]}
    \cup {[err |-> FALSE, body |-> "nil", len |-> 0]}
    \cup {[err |-> FALSE, body |-> "open", len |-> n] : n \in 0..MaxStream}

\* buildFailure with the nil-stream case reported as an engine error
buildFailureSameDiag(err, body) ==
    IF err \/ body = "nil" THEN "engine error" ELSE None

\* the panic value of lines 178-184 for a result of ImageBuild, None if it passes
buildFailure(err, body) ==
    IF err THEN "engine error"
    ELSE IF body = "nil" THEN "Unknown error occurred when building docker image"
    ELSE None

\* buffer.Bytes(), time.Now(), apiClient.ImageBuild and the checks of its result
ImageBuild ==
    /\ pc = "build"
    /\ \E o \in BuildOutcomes :
         LET ref == ImageRef(databaseName, now)
         IN  /\ fullImageName' = ref
             /\ engineCalls' = Append(engineCalls,
                    Call("ImageBuild", ref, tarBuffer, NoName, databaseName))
             /\ buildResponse' = [err |-> o.err, body |-> o.body, len |-> o.len,
                                  pos |-> 0, failed |-> FALSE, eof |-> FALSE,
                                  closes |-> 0]
             /\ IF buildFailure(o.err, o.body) # None
                THEN Panic(buildFailure(o.err, o.body))
                ELSE /\ pc' = "copy"
                     /\ UNCHANGED <<diag, tmpFile, apiClient>>
    /\ UNCHANGED <<host, connectionURL, createContainerFlag, pgDumpFile, databaseName,
                   cmd, dumpBuffer, tw, tarBuffer, imageName, output, now>>

\* afterCopy with the loop never left
afterCopyNever == "copy"

\* where the run goes on when io.Copy returns (line 194)
afterCopy == "built"

\* io.Copy(io.Discard, buildResponse.Body): one Read of the loop.  The loop
\* ends at end of stream or at the first read error; its result is discarded
CopyBody ==
    /\ pc = "copy"
    /\ \E readErr \in BOOLEAN :
         IF readErr
         THEN /\ buildResponse' = [buildResponse EXCEPT !.failed = TRUE]
              /\ pc' = afterCopy
         ELSE IF buildResponse.pos < buildResponse.len
         THEN /\ buildResponse' = [buildResponse EXCEPT !.pos = @ + 1]
              /\ pc' = "copy"
         ELSE /\ buildResponse' = [buildResponse EXCEPT !.eof = TRUE]
              /\ pc' = afterCopy
    /\ UNCHANGED <<host, connectionURL, createContainerFlag, pgDumpFile, tmpFile,
                   databaseName, cmd, dumpBuffer, tw, tarBuffer, apiClient,
                   engineCalls, fullImageName, imageName, output, diag, now>>

\* closeBody with the deferred Close left out
closeBodyNever(resp) == resp

\* the deferred function of lines 186-190
closeBody(resp) ==
    IF resp.body = "open"
    THEN [resp EXCEPT !.body = "closed", !.closes = @ + 1]
    ELSE resp

\* launchRequested with the flag ignored
launchAlways(flag) == TRUE

\* builtNotice left for the end of the run: nothing is printed here
builtNoticeLater(ref) == Line("", NoRef)

\* fmt.Printf("Image built successfully with name: %s", fullImageName)
builtNotice(ref) == Line("Image built successfully", ref)

\* if createContainerFlag (line 114)
launchRequested(flag) == flag

\* the success notice, return fullImageName with its deferred close, and the
\* branch on the flag in processBackup
ReturnImage ==
    /\ pc = "built"
    /\ output' = Append(output, builtNotice(fullImageName))
    /\ buildResponse' = closeBody(buildResponse)
    /\ imageName' = fullImageName
    /\ pc' = IF launchRequested(createContainerFlag) THEN "container" ELSE "return"
    /\ UNCHANGED <<host, connectionURL, createContainerFlag, pgDumpFile, tmpFile,
                   databaseName, cmd, dumpBuffer, tw, tarBuffer, apiClient,
                   engineCalls, fullImageName, diag, now>>

----------------------------------------------------------------------------
(* createContainer *)

\* Image: imageName in container.Config
configImage(image) == image

\* "postgres-" + databaseName + "-" + strconv.FormatInt(time.Now().Unix(), 10)
ContainerName(name, t) == [prefix |-> "postgres-", db |-> name, unix |-> t]

\* apiClient.ContainerCreate and the notice that follows it
ContainerCreate ==
    /\ pc = "container"
    /\ \E ok \in BOOLEAN :
         LET name == ContainerName(databaseName, now)
             said == Append(output, Line("Step 2: Creating a container", NoRef))
         IN  /\ engineCalls' = Append(engineCalls,
                    Call("ContainerCreate", configImage(imageName), <<>>, name, <<>>))
             /\ IF ok
                THEN /\ output' = Append(said, Line("Container created", NoRef))
                     /\ pc' = "return"
                     /\ UNCHANGED <<diag, tmpFile, apiClient>>
                ELSE /\ output' = said
                     /\ Panic("container create")
    /\ UNCHANGED <<host, connectionURL, createContainerFlag, pgDumpFile, databaseName,
                   cmd, dumpBuffer, tw, tarBuffer, buildResponse, fullImageName,
                   imageName, now>>

\* processBackup returns: its deferred calls run, the Action returns nil
Return ==
    /\ pc = "return"
    /\ pc' = "done"
    /\ RunDeferred
    /\ UNCHANGED <<host, connectionURL, createContainerFlag, pgDumpFile, databaseName,
                   cmd, dumpBuffer, tw, tarBuffer, buildResponse, engineCalls,
                   fullImageName, imageName, output, diag, now>>

\* the wall clock advances while the invocation runs
Tick ==
    /\ pc \notin {"done", "failed"}
    /\ now < MaxNow
    /\ now' = now + 1
    /\ UNCHANGED <<host, pc, connectionURL, createContainerFlag, pgDumpFile, tmpFile,
                   databaseName, cmd, dumpBuffer, tw, tarBuffer, apiClient,
                   buildResponse, engineCalls, fullImageName, imageName, output,
                   diag>>

Next ==
    \/ Main
    \/ StatPgDump
    \/ CreatePgDump
    \/ WritePgDump
    \/ ChmodPgDump
    \/ ExtractDatabaseName
    \/ CmdStart
    \/ CmdWait
    \/ WriteDumpHeader
    \/ WriteDumpContent
    \/ NewClient
    \/ WriteRecipeHeader
    \/ WriteRecipe
    \/ CloseTar
    \/ ImageBuild
    \/ CopyBody
    \/ ReturnImage
    \/ ContainerCreate
    \/ Return
    \/ Tick

Spec == Init /\ [][Next]_vars

----------------------------------------------------------------------------
(* Invocations one after the other on the same host *)

\* the process has ended and the tool is invoked again: the file at
\* pgDumpPath is what the earlier invocation left
NextRun ==
    /\ pc \in {"done", "failed"}
    /\ host.runs < MaxRuns
    /\ host' = [host EXCEPT !.runs = @ + 1]
    /\ pc' = "main"
    /\ connectionURL' \in ConnectionStrings
    /\ createContainerFlag' \in BOOLEAN
    /\ tmpFile' = None
    /\ databaseName' = <<>>
    /\ cmd' = NoCmd
    /\ dumpBuffer' = <<>>
    /\ tw' = NoWriter
    /\ tarBuffer' = <<>>
    /\ apiClient' = None
    /\ buildResponse' = NoResponse
    /\ engineCalls' = <<>>
    /\ fullImageName' = NoRef
    /\ imageName' = NoRef
    /\ output' = <<>>
    /\ diag' = None
    /\ UNCHANGED <<pgDumpFile, now>>

\* every step of the run other than the passing of time: each external call
\* that is pending returns, and the program's own steps are taken
Returns == Next /\ now' = now

SpecFair == Init /\ [][Next]_vars /\ WF_vars(Returns)

SpecRuns == Init /\ [][Next \/ NextRun]_vars

----------------------------------------------------------------------------
(* A second invocation of the tool running at the same time on the same    *)
(* host: its steps on the file at pgDumpPath, up to the start of the tool  *)

OtherUnchanged ==
    UNCHANGED <<pc, connectionURL, createContainerFlag, tmpFile, databaseName,
                cmd, dumpBuffer, tw, tarBuffer, apiClient, buildResponse,
                engineCalls, fullImageName, imageName, output, diag, now>>

\* the second invocation panics: its deferred tmpFile.Close runs
OtherPanic ==
    [host.other EXCEPT !.pc = "failed",
                       !.tmpFile = IF @ = "open" THEN "closed" ELSE @]

\* os.Stat(pgDumpPath) and the branch on os.IsNotExist, in the second invocation
OtherStat ==
    /\ host.other.pc = "idle"
    /\ \E statErr \in BOOLEAN :
         host' = [host EXCEPT
            !.missed = IF fileMissing(pgDumpFile) THEN @ + 1 ELSE @,
            !.other = IF fileMissing(pgDumpFile)
                      THEN [@ EXCEPT !.pc = "create", !.sawFile = pgDumpFile.exists]
                      ELSE IF statErr
                      THEN [@ EXCEPT !.pc = "failed", !.sawFile = pgDumpFile.exists]
                      ELSE [@ EXCEPT !.pc = "start", !.sawFile = pgDumpFile.exists]]
    /\ UNCHANGED pgDumpFile
    /\ OtherUnchanged

\* os.Create(pgDumpPath); defer tmpFile.Close(), in the second invocation
OtherCreate ==
    /\ host.other.pc = "create"
    /\ \E ok \in BOOLEAN :
         IF ok
         THEN /\ pgDumpFile' = created(pgDumpFile)
              /\ host' = [host EXCEPT !.other.pc = "write", !.other.tmpFile = "open"]
         ELSE /\ host' = [host EXCEPT !.other = OtherPanic]
              /\ UNCHANGED pgDumpFile
    /\ OtherUnchanged

\* tmpFile.Write(pgDump), in the second invocation
OtherWrite ==
    /\ host.other.pc = "write"
    /\ \E n \in 0..Len(pgDump) :
         /\ pgDumpFile' = written(pgDumpFile, n)
         /\ host' = [host EXCEPT
               !.writes = @ + 1,
               !.other = IF n = Len(pgDump) THEN [@ EXCEPT !.pc = "chmod"]
                         ELSE OtherPanic]
    /\ OtherUnchanged

\* tmpFile.Chmod(0755), in the second invocation
OtherChmod ==
    /\ host.other.pc = "chmod"
    /\ \E ok \in BOOLEAN :
         IF ok
         THEN /\ pgDumpFile' = [pgDumpFile EXCEPT !.mode = "0755"]
              /\ host' = [host EXCEPT !.other.pc = "start"]
         ELSE /\ host' = [host EXCEPT !.other = OtherPanic]
              /\ UNCHANGED pgDumpFile
    /\ OtherUnchanged

\* exec.Command(pgDumpPath, connectionURL); cmd.Start(), in the second invocation
OtherStart ==
    /\ host.other.pc = "start"
    /\ \E ok \in BOOLEAN :
         IF ok /\ Executable(pgDumpFile)
         THEN host' = [host EXCEPT !.other.pc = "running"]
         ELSE host' = [host EXCEPT !.other = OtherPanic]
    /\ UNCHANGED pgDumpFile
    /\ OtherUnchanged

OtherNext ==
    \/ OtherStat
    \/ OtherCreate
    \/ OtherWrite
    \/ OtherChmod
    \/ OtherStart

SpecRace == Init /\ [][Next \/ OtherNext]_vars

----------------------------------------------------------------------------
(* Observations on a run *)

CallsOf(op) == {i \in 1..Len(engineCalls) : engineCalls[i].op = op}

BuildCalls == CallsOf("ImageBuild")

CreateCalls == CallsOf("ContainerCreate")

StartCalls == CallsOf("ContainerStart")

Said(msg) == \E i \in 1..Len(output) : output[i].msg = msg

SuccessNotice == Said("Image built successfully")

DumpFailed ==
    /\ pc = "failed"
    /\ diag \in {"dump tool did not start", "dump tool exit status"}

BuildCallFailed == buildResponse.err

StreamReadFailed == buildResponse.failed

StreamHandedBack == buildResponse.body \in {"open", "closed"}

Terminal == pc \in {"done", "failed"}

----------------------------------------------------------------------------
(* Claims *)

\* C1: any adapter failure halts the run at once: after the dump subprocess
\* failed no archive entry is written, no engine client is created and no
\* build call is made; after the build call failed no container-create call
\* is made; and after the build stage failed while reading the response
\* stream no operation of the launch stage (a container-create call) is made.
C1_FailureHaltsPipeline ==
    /\ DumpFailed =>
         /\ tarBuffer = <<>>
         /\ apiClient = None
         /\ BuildCalls = {}
    /\ BuildCallFailed =>
         /\ pc = "failed"
         /\ CreateCalls = {}
    /\ StreamReadFailed => CreateCalls = {}

\* C2: a successful run with the container flag set contains a create call
\* followed by a start call for the created instance.
C2_CreateThenStart ==
    (pc = "done" /\ createContainerFlag /\ SuccessNotice) =>
        \E i \in CreateCalls : \E j \in StartCalls :
            /\ i < j
            /\ engineCalls[j].name = engineCalls[i].name

\* C3: a build call that returns no error and a nil stream ends the run with
\* the unknown-error diagnostic, a build call that returns an error ends it
\* with the engine's error, the two diagnostics differ, and in neither case is
\* an image reference returned, a success notice printed or a container
\* created.
C3_NilStreamIsDistinctFatal ==
    LET NoResult == /\ pc = "failed"
                    /\ imageName = NoRef
                    /\ ~SuccessNotice
                    /\ CreateCalls = {}
    IN  /\ (~buildResponse.err /\ buildResponse.body = "nil") =>
             /\ NoResult
             /\ diag = "Unknown error occurred when building docker image"
             /\ diag # "engine error"
        /\ buildResponse.err =>
             /\ NoResult
             /\ diag = "engine error"

C3_Witness ==
    /\ pc = "failed"
    /\ ~buildResponse.err
    /\ buildResponse.body = "nil"
    /\ BuildCalls # {}

\* C4: the success notice is printed, the image reference is returned and a
\* container-create call is made only after the build response stream has
\* been read to its end.
C4_DrainedBeforeFinished ==
    (SuccessNotice \/ imageName # NoRef \/ CreateCalls # {}) =>
        /\ buildResponse.eof
        /\ buildResponse.pos = buildResponse.len

\* C5: in every terminal state of a run in which the engine handed back a
\* response stream, the stream has been closed exactly once; no stream is
\* closed more than once.
C5_StreamReleased ==
    /\ buildResponse.closes <= 1
    /\ (Terminal /\ StreamHandedBack) =>
         /\ buildResponse.body = "closed"
         /\ buildResponse.closes = 1

C5_Witness ==
    /\ pc = "failed"
    /\ diag = "container create"
    /\ StreamReadFailed
    /\ buildResponse.body = "closed"

\* the entries of a buffer are whole: each holds as many content bytes as
\* its header declares
WholeEntries(buf) ==
    \A k \in 1..Len(Entries(buf)) :
        Len(Entries(buf)[k].content) = Entries(buf)[k].size

EntryNamed(buf, name) ==
    {k \in 1..Len(Entries(buf)) : Entries(buf)[k].name = name}

BothEntriesWritten(buf) ==
    /\ Len(Entries(buf)) = 2
    /\ WholeEntries(buf)
    /\ EntryNamed(buf, "dump.sql") # {}
    /\ EntryNamed(buf, "Dockerfile") # {}

C6_Finalized ==
    /\ tw.closes <= 1
    /\ tw.closes = 1 =>
         /\ tw.err = "closed"
         /\ BothEntriesWritten(tarBuffer)
    /\ \A i \in BuildCalls :
         /\ tw.err = "closed"
         /\ tw.closes = 1
         /\ engineCalls[i].context = tarBuffer

\* C6: the packer is closed at most once, and exactly once before its bytes
\* are read as the build context; it is closed only after both entries have
\* been written; once it is closed no further header or content reaches the
\* buffer; every build call is handed the bytes of the closed packer.
C6_FinalizedOnceBeforeRead ==
    /\ []C6_Finalized
    /\ [][tw.err = "closed" => (tarBuffer' = tarBuffer /\ tw' = tw)]_vars

C6_Witness ==
    /\ BuildCalls # {}
    /\ tw.closes = 1
    /\ Len(dumpBuffer) > 0

\* C7: the archive of every build call holds exactly two entries, the recipe
\* and the dump payload; each header declares the number of content bytes of
\* its entry, the recipe's length and the payload's length N; reading the
\* archive back yields the recipe and the payload unchanged.
C7_ArchiveRoundTrip ==
    \A i \in BuildCalls :
        LET es == Entries(engineCalls[i].context)
        IN  /\ Len(es) = 2
            /\ \E d \in 1..2 : \E r \in (1..2) \ {d} :
                 /\ es[d].name = "dump.sql"
                 /\ es[d].size = Len(dumpBuffer)
                 /\ es[d].content = dumpBuffer
                 /\ es[r].name = "Dockerfile"
                 /\ es[r].size = Len(dockerfile)
                 /\ es[r].content = dockerfile

C7_Witness ==
    /\ BuildCalls # {}
    /\ Len(dumpBuffer) = 2
    /\ dumpBuffer[1] # dumpBuffer[2]

C9_LaunchIsConditional ==
    /\ ~createContainerFlag =>
         /\ CreateCalls = {}
         /\ StartCalls = {}
         /\ imageName # NoRef => (pc \in {"return", "done"} /\ diag = None)
    /\ \A i \in CreateCalls :
         /\ createContainerFlag
         /\ imageName # NoRef
         /\ SuccessNotice
         /\ engineCalls[i].image = imageName
         /\ \E b \in BuildCalls : b < i /\ engineCalls[b].image = engineCalls[i].image

C9_Witness ==
    /\ createContainerFlag
    /\ CreateCalls # {}
    /\ pc = "done"

\* the stage a run has completed: 0 START, 1 DUMP_CAPTURED, 2 ARCHIVE_BUILT,
\* 3 IMAGE_BUILT, 4 the launch stage, 5 DONE
StageRank ==
    IF pc = "done" /\ imageName # NoRef THEN 5
    ELSE IF Said("Container created") THEN 4
    ELSE IF imageName # NoRef THEN 3
    ELSE IF tw.err = "closed" THEN 2
    ELSE IF cmd.state = "exited" /\ cmd.status = 0 THEN 1
    ELSE 0

\* each stage's operations happen only once the stage before has completed
StagePreconditions ==
    /\ tarBuffer # <<>> => StageRank >= 1
    /\ BuildCalls # {} =>
         /\ StageRank >= 2
         /\ \A i \in BuildCalls : BothEntriesWritten(engineCalls[i].context)
    /\ CreateCalls # {} => StageRank >= 3
    /\ Cardinality(BuildCalls) <= 1
    /\ Cardinality(CreateCalls) <= 1

\* C10: the stages are completed one at a time in the order START,
\* DUMP_CAPTURED, ARCHIVE_BUILT, IMAGE_BUILT, the optional launch stage, DONE;
\* no step returns to an earlier stage or enters a stage twice; the archive
\* is written only after the dump is captured, the build call is made only
\* with both entries written and the packer closed, the create call only
\* after the image is built.
C10_StagesInOrder ==
    /\ []StagePreconditions
    /\ [][\/ StageRank' = StageRank
          \/ StageRank' = StageRank + 1
          \/ (StageRank = 3 /\ StageRank' = 5)]_vars

C10_Witness ==
    /\ StageRank = 5
    /\ Said("Container created")

LaunchFailed == pc = "failed" /\ diag = "container create"

\* position in the output of the first line saying msg, 0 if none
FirstSaid(msg) ==
    IF Said(msg)
    THEN CHOOSE i \in 1..Len(output) :
             /\ output[i].msg = msg
             /\ \A j \in 1..(i - 1) : output[j].msg # msg
    ELSE 0

C11_BuildResultKept ==
    LaunchFailed =>
        /\ imageName # NoRef
        /\ imageName = fullImageName
        /\ \E b \in BuildCalls : engineCalls[b].image = imageName
        /\ \A i \in 1..Len(engineCalls) :
             engineCalls[i].op \in {"ImageBuild", "ContainerCreate"}
        /\ \E i \in 1..Len(output) : output[i] = Line("Image built successfully", imageName)
        /\ FirstSaid("Image built successfully") > 0
        /\ FirstSaid("Image built successfully") < FirstSaid("Step 2: Creating a container")

\* C11: a failed container creation ends the run with the build's result as
\* it was: the returned image reference is the one the build was tagged
\* with and no step changes it once returned, the engine has received no
\* call other than the build and the create, and the image-build success
\* notice was printed before the launch stage began.
C11_LaunchFailureKeepsBuild ==
    /\ []C11_BuildResultKept
    /\ [][imageName # NoRef =>
            /\ imageName' = imageName
            /\ SubSeq(engineCalls', 1, Len(engineCalls)) = engineCalls]_vars

C11_Witness ==
    /\ LaunchFailed
    /\ SuccessNotice
    /\ CreateCalls # {}

ValidationFailed ==
    /\ pc = "failed"
    /\ diag \in {"Invalid Postgres connection URL",
                 "No database name or username found in the connection URL"}

\* C12: when the connection string does not parse or yields no database
\* name the run fails without any effect of the pipeline: the dump tool has
\* not been created or written in the temporary-file area, no dump
\* subprocess was run, no archive was written and no engine call was made.
C12_InvalidInputNoEffect ==
    ValidationFailed =>
        /\ tmpFile = None
        /\ host.writes = 0
        /\ cmd = NoCmd
        /\ tarBuffer = <<>>
        /\ engineCalls = <<>>

\* the run has checked for the file and found it
FoundFile ==
    /\ pc \notin {"main", "stat", "create", "write", "chmod"}
    /\ tmpFile = None
    /\ diag # "create"
    /\ connectionURL # <<>>

\* C13 as stated: across the runs on a host the tool's bytes are written
\* exactly once, by the first run that finds no file at the path.
C13_WrittenOnceByFirstRun ==
    /\ host.writes <= 1
    /\ (Terminal /\ host.missed >= 1) => host.writes = 1

\* C13, amended: across the runs on a host the tool's bytes are written at
\* most once, by a run that found no file and created it; a run that finds a
\* file at the path never creates, writes or changes it.
C13_MaterialisedAtMostOnce ==
    /\ [](/\ host.writes <= 1
          /\ host.writes <= host.missed
          /\ host.writes = 1 => pgDumpFile.exists
          /\ FoundFile => pgDumpFile.exists)
    /\ [][/\ pgDumpFile' # pgDumpFile => (tmpFile' # None /\ ~FoundFile)
          /\ host.writes' # host.writes => (host.writes = 0 /\ tmpFile = "open")
          /\ (FoundFile /\ pc' # "main") =>
                (pgDumpFile' = pgDumpFile /\ host.writes' = host.writes)]_vars

C13_Witness ==
    /\ host.runs = 2
    /\ host.writes = 1
    /\ host.missed = 1
    /\ FoundFile
    /\ pc = "wait"
    /\ pgDumpFile = CompleteFile

\* both invocations passed the existence check and both wrote the file
C14_BothWrote ==
    /\ host.writes = 2
    /\ tmpFile # None
    /\ host.other.tmpFile # None
    /\ ~host.other.sawFile

C14_OnlyTheCheckGuards ==
    /\ host.writes <= host.missed
    /\ host.other.sawFile => host.other.tmpFile = None
    /\ FoundFile => pgDumpFile.exists
    /\ host.writes = 2 =>
         /\ host.missed = 2
         /\ tmpFile # None
         /\ host.other.tmpFile # None

\* C14: with two invocations at the same time the file is guarded by each
\* invocation's own existence check and nothing else: an invocation creates
\* and writes the file exactly when its check found none, whatever the other
\* one is doing, so two checks that both find no file lead to two writes;
\* an invocation whose check finds the file goes on to run it without
\* looking at its content or permissions, and the start of the tool succeeds
\* only on a complete, executable file.
C14_RaceOnDumpTool ==
    /\ []C14_OnlyTheCheckGuards
    /\ [][/\ (cmd.state = None /\ cmd'.state = "running") => Executable(pgDumpFile)
          /\ (host.other.pc # "running" /\ host'.other.pc = "running")
                => Executable(pgDumpFile)]_vars

\* one invocation found the file the other had created and ran it as the
\* dump tool before the other had written its content or set its permission
C14_Witness ==
    /\ FoundFile
    /\ pc = "failed"
    /\ diag = "dump tool did not start"
    /\ host.missed = 1
    /\ host.other.tmpFile = "open"
    /\ host.other.pc \in {"write", "chmod"}
    /\ ~Executable(pgDumpFile)

\* the part of the parsed path after its leading separator
C15_PathSegment(url) ==
    LET path == ParseURL(url).path
    IN  IF path # <<>> /\ Head(path) = "/" THEN Slice(path, 2, Len(path)) ELSE path

\* C15: for a connection string that parses, the name taken from it is the
\* path segment after its leading separator when that is non-empty, otherwise
\* the user name when that is non-empty, otherwise the derivation fails with
\* the validation error and no name; a name once derived is never empty.
C15_NameFromPathThenUser ==
    /\ [](tw # NoWriter => databaseName # <<>>)
    /\ [][(pc = "extract" /\ pc' # "extract" /\ ~ParseURL(connectionURL).err) =>
            LET seg  == C15_PathSegment(connectionURL)
                user == ParseURL(connectionURL).username
            IN  IF seg # <<>>
                THEN pc' = "start" /\ databaseName' = seg
                ELSE IF user # <<>>
                THEN pc' = "start" /\ databaseName' = user
                ELSE /\ pc' = "failed"
                     /\ diag' = "No database name or username found in the connection URL"
                     /\ databaseName' = <<>>]_vars

\* the name fell back to the user name of a connection string whose path is
\* only the separator
C15_Witness ==
    /\ connectionURL = UrlUserSlash
    /\ databaseName = <<"u">>
    /\ pc = "start"

\* the minute an instant falls in
C16_Minute(t) == t \div SecondsPerMinute

\* instants of another build of the same database on the same host
C16_OtherInstants == {now - 1, now + 1, now + SecondsPerHour}

\* C16: the image reference is <databaseName>-<stamp>:latest and depends on
\* the database name and the minute of the build instant only: a build of the
\* same database at another instant gets the same reference exactly when the
\* two instants fall in the same minute.
C16_ReferenceByMinute ==
    [][(pc = "build" /\ pc' # "build") =>
         /\ fullImageName'.db = databaseName
         /\ fullImageName'.tag = "latest"
         /\ \A t \in C16_OtherInstants :
              (ImageRef(databaseName, t) = fullImageName')
                 <=> (C16_Minute(t) = C16_Minute(now))]_vars

\* the run is blocked in an external call: the dump subprocess, the build
\* call, or a read of the build's response stream
C17_Blocked == pc \in {"wait", "build", "copy"}

C17_NothingLaterWhileBlocked ==
    /\ pc = "wait" =>
         /\ cmd.state = "running"
         /\ tarBuffer = <<>>
         /\ apiClient = None
         /\ engineCalls = <<>>
    /\ pc = "build" =>
         /\ engineCalls = <<>>
         /\ ~SuccessNotice
    /\ pc = "copy" =>
         /\ CreateCalls = {}
         /\ ~SuccessNotice
         /\ imageName = NoRef

\* C17: no step has a timeout or a cancellation.  While the run waits for the
\* dump subprocess, for the build call or for the response stream it has
\* performed no later operation, and it leaves that stage only when the
\* subprocess has exited, the build call has returned, or a read of the
\* stream has returned; when every external call returns, the run reaches
\* the end or a failed end.
C17_BlockedUntilReturn ==
    /\ []C17_NothingLaterWhileBlocked
    /\ [][/\ (pc = "wait" /\ pc' # "wait") => cmd'.state = "exited"
          /\ (pc = "build" /\ pc' # "build") =>
                /\ Len(engineCalls') = Len(engineCalls) + 1
                /\ buildResponse' # NoResponse \/ pc' = "failed"
          /\ (pc = "copy" /\ buildResponse' = buildResponse) =>
                (pc' = "copy" /\ UNCHANGED <<engineCalls, output, imageName>>)
          /\ (C17_Blocked /\ now' # now) => pc' = pc]_vars
    /\ <>Terminal

\* the run went through all three blocking stages and reached the end
C17_Witness ==
    /\ pc = "done"
    /\ cmd.state = "exited"
    /\ BuildCalls # {}
    /\ buildResponse.eof
    /\ buildResponse.pos = MaxStream

\* C18: started with no positional argument the tool prints its help and
\* ends without an error, and takes no step of the pipeline: the file at
\* pgDumpPath is not looked up, created or written, no dump subprocess is
\* started, no archive is begun and no engine client or engine call is made.
C18_NoArgumentOnlyHelp ==
    /\ [](connectionURL = <<>> =>
            /\ pc \in {"main", "done"}
            /\ diag = None
            /\ tmpFile = None
            /\ host.missed = 0
            /\ host.writes = 0
            /\ cmd = NoCmd
            /\ dumpBuffer = <<>>
            /\ tw = NoWriter
            /\ apiClient = None
            /\ engineCalls = <<>>
            /\ pc = "main" => output = <<>>
            /\ pc = "done" => output = <<Line("help", NoRef)>>)
    /\ [][connectionURL = <<>> => pgDumpFile' = pgDumpFile]_vars

\* the run without an argument has ended after printing the help
C18_Witness ==
    /\ connectionURL = <<>>
    /\ pc = "done"
    /\ Said("help")

\* the operations the tool has asked of the engine
C19_EngineOps == {engineCalls[i].op : i \in 1..Len(engineCalls)}

\* C19: a failed run cleans nothing up.  The file at pgDumpPath is never
\* removed once it is there, so a run that created or found it and then
\* failed leaves it in place; and the only operations ever asked of the
\* engine are the image build and the container create, never a removal of
\* an image or of a container.
C19_NoCleanupOnFailure ==
    /\ [](/\ C19_EngineOps \subseteq {"ImageBuild", "ContainerCreate"}
          /\ (pc = "failed" /\ (tmpFile # None \/ FoundFile)) => pgDumpFile.exists
          /\ (pc = "failed" /\ BuildCalls # {}) => pgDumpFile = CompleteFile)
    /\ [][pgDumpFile.exists => pgDumpFile'.exists]_vars

\* the run wrote the tool, built the image and failed at the container
\* create: the file and the built image are left as they are
C19_Witness ==
    /\ LaunchFailed
    /\ host.writes = 1
    /\ pgDumpFile = CompleteFile
    /\ SuccessNotice
    /\ C19_EngineOps = {"ImageBuild", "ContainerCreate"}

\* the names of the entry headers of a buffer, in the order they were written
C20_HeaderNames(buf) ==
    LET IsHeader(c) == c.kind = "hdr"
        hdrs == SelectSeq(buf, IsHeader)
    IN  [k \in 1..Len(hdrs) |-> hdrs[k].name]

C20_FixedOrder == <<"dump.sql", "Dockerfile">>

\* the dump entry of a buffer is whole and holds the captured dump
C20_DumpEntryWhole(buf) ==
    /\ Entries(buf) # <<>>
    /\ Entries(buf)[1].name = "dump.sql"
    /\ Entries(buf)[1].size = Len(dumpBuffer)
    /\ Entries(buf)[1].content = dumpBuffer

\* C20: the archive is written in one fixed order, dump.sql first and
\* Dockerfile second.  The headers in the buffer are always a prefix of that
\* order, the header of the recipe is written only when the header and all
\* the content of the dump entry are in the buffer, the dump entry is not
\* touched afterwards, and every archive handed to the build call holds the
\* two entries in that order.
C20_DumpThenRecipe ==
    /\ [](/\ C20_HeaderNames(tarBuffer) \in
               {SubSeq(C20_FixedOrder, 1, n) : n \in 0..Len(C20_FixedOrder)}
          /\ Len(C20_HeaderNames(tarBuffer)) = 2 => C20_DumpEntryWhole(tarBuffer)
          /\ \A i \in BuildCalls :
               /\ C20_HeaderNames(engineCalls[i].context) = C20_FixedOrder
               /\ Len(Entries(engineCalls[i].context)) = 2
               /\ Entries(engineCalls[i].context)[1].content = dumpBuffer
               /\ Entries(engineCalls[i].context)[2].name = "Dockerfile"
               /\ Entries(engineCalls[i].context)[2].content = dockerfile)
    /\ [][Len(C20_HeaderNames(tarBuffer')) > Len(C20_HeaderNames(tarBuffer)) =>
            /\ Len(C20_HeaderNames(tarBuffer')) = Len(C20_HeaderNames(tarBuffer)) + 1
            /\ Len(C20_HeaderNames(tarBuffer)) = 1 => C20_DumpEntryWhole(tarBuffer)
            /\ \A k \in 1..Len(tarBuffer) : tarBuffer'[k] = tarBuffer[k]]_vars

\* a build call was handed an archive holding a dump of the largest size
\* followed by the recipe
C20_Witness ==
    /\ BuildCalls # {}
    /\ Len(dumpBuffer) = MaxDump
    /\ C20_HeaderNames(engineCalls[1].context) = C20_FixedOrder
    /\ Entries(engineCalls[1].context)[1].content = dumpBuffer

====
